---- MODULE Spec2Model ----
(***************************************************************************)
(* Auto-Reaction-Bot: the webhook routes of api/index.js and the update    *)
(* handler of bot-handler.js (onUpdate, pickDelayMs, scheduleReaction).    *)
(*                                                                         *)
(* One step of the model is one run-to-completion turn of the Node event   *)
(* loop: the callback of an incoming POST, of a network reply or of a      *)
(* timer, together with the promise continuations (microtasks) it makes    *)
(* runnable.  A turn ends where the code reaches an `await` on a network   *)
(* call or on the timer of sleep().                                        *)
(*                                                                         *)
(* Strings the code compares or takes apart are sequences of tokens, so    *)
(* that '/start@' + botUsername, cleanToken, token.match(/(\d+):/) and     *)
(* raw.replace(/\D/g, '') are computed, not assumed.                       *)
(***************************************************************************)
EXTENDS Integers, Sequences, FiniteSets, TLC

VARIABLES
    RandomLevel,      \* api/index.js:21   RANDOM_LEVEL, an integer 0..10
    RestrictedChats,  \* api/index.js:20   chat ids in which no reaction is made
    env,              \* process.env: BOT_USERNAME, REACT_DELAY_MIN_MS, REACT_DELAY_MAX_MS
    botTokenSingle,   \* api/index.js:38   BOT_TOKEN, <<>> when not set
    multiBotMap,      \* api/index.js:43   botId -> [token, username, api]
    requests,         \* the POSTs received so far, each with its handler's position
    tasks,            \* the scheduleReaction calls made so far, each with its position
    calls,            \* the Telegram API calls made so far, in order
    picked            \* the pickDelayMs call made on its own, <<>> before it

vars == <<RandomLevel, RestrictedChats, env, botTokenSingle, multiBotMap,
          requests, tasks, calls, picked>>

config == <<RandomLevel, RestrictedChats, env, botTokenSingle, multiBotMap>>

----------------------------------------------------------------------------
(* Bounds of the model *)

\* Updates received in one behaviour of Spec.
MaxUpdates == 2

\* Math.random() is drawn from the grid {0, 1/DrawDen, ..., (DrawDen-1)/DrawDen}.
DrawDen == 2

Draws == 0 .. (DrawDen - 1)

\* The grid of the two Math.random() draws of pickDelayMs when it is called on its
\* own (SpecDelay): {0, 1/DelayDen, ..., (DelayDen-1)/DelayDen}.
DelayDen == 4

DelayDraws == 0 .. (DelayDen - 1)

\* The field `draw` of a request that made no draw at the probability gate.
NoDraw == DrawDen

----------------------------------------------------------------------------
(* Strings *)

Digits == {"0", "1", "2", "3", "4", "5", "6", "7", "8", "9"}

SmartQuotes == {"LDQ", "RDQ", "LSQ", "RSQ"}

\* whitespace, double quote, single quote, backtick
TrimChars == {"SP", "DQ", "SQ", "BT"}

RECURSIVE TrimLeft(_)
TrimLeft(s) ==
    IF s # <<>> /\ Head(s) \in TrimChars THEN TrimLeft(Tail(s)) ELSE s

RECURSIVE TrimRight(_)
TrimRight(s) ==
    IF s # <<>> /\ s[Len(s)] \in TrimChars
    THEN TrimRight(SubSeq(s, 1, Len(s) - 1))
    ELSE s

NotBOM(c) == c # "BOM"

cleanToken(t) ==
    LET noBom  == SelectSeq(t, NotBOM)
        quoted == [i \in 1 .. Len(noBom) |->
                     IF noBom[i] \in SmartQuotes THEN "DQ" ELSE noBom[i]]
    IN TrimRight(TrimLeft(quoted))

\* The last position of the run of digits that starts at position i of t.
DigitRunEnd(t, i) ==
    CHOOSE j \in i .. Len(t) :
        /\ \A k \in i .. j : t[k] \in Digits
        /\ (j = Len(t) \/ t[j + 1] \notin Digits)

\* /(\d+):/ matches at i: a run of digits from i, then a colon.
MatchesAt(t, i) ==
    /\ t[i] \in Digits
    /\ DigitRunEnd(t, i) < Len(t)
    /\ t[DigitRunEnd(t, i) + 1] = ":"

\* token.match(/(\d+):/): group 1 of the leftmost match, <<>> when there is none.
tokenBotId(token) ==
    LET at == {i \in 1 .. Len(token) : MatchesAt(token, i)}
    IN IF at = {} THEN <<>>
       ELSE LET i == CHOOSE x \in at : \A y \in at : x <= y
            IN SubSeq(token, i, DigitRunEnd(token, i))

IsDigit(c) == c \in Digits

\* raw.replace(/\D/g, ''): the digits of raw
cleanedId(raw) == SelectSeq(raw, IsDigit)

----------------------------------------------------------------------------
(* Startup: api/index.js builds its configuration from the environment *)

\* a || b on strings: the empty string is falsy
OrElse(a, b) == IF a # <<>> THEN a ELSE b

\* usernamesRaw[i], undefined (falsy) past the end of the list
ItemOr(list, i) == IF i \in 1 .. Len(list) THEN list[i] ELSE <<>>

\* tokensRaw.forEach: an entry is kept when its token has a bot id and no earlier
\* entry has the same id.
keptEntries(tokensRaw) ==
    {i \in 1 .. Len(tokensRaw) :
        /\ tokenBotId(cleanToken(tokensRaw[i])) # <<>>
        /\ \A j \in 1 .. (i - 1) :
              tokenBotId(cleanToken(tokensRaw[j])) # tokenBotId(cleanToken(tokensRaw[i]))}

buildMultiBotMap(tokensRaw, usernamesRaw, BOT_USERNAME) ==
    LET ids == {tokenBotId(cleanToken(tokensRaw[i])) : i \in keptEntries(tokensRaw)}
        at(id) == CHOOSE i \in keptEntries(tokensRaw) :
                      tokenBotId(cleanToken(tokensRaw[i])) = id
    IN [id \in ids |->
          [token    |-> cleanToken(tokensRaw[at(id)]),
           username |-> OrElse(ItemOr(usernamesRaw, at(id)), BOT_USERNAME),
           api      |-> cleanToken(tokensRaw[at(id)])]]

multiMode == DOMAIN multiBotMap # {}

\* Number(process.env.X): undefined and non-numeric text give NaN, '' gives 0.
NumberOf(raw) ==
    CASE raw.kind = "unset"  -> [nan |-> TRUE,  val |-> 0]
      [] raw.kind = "empty"  -> [nan |-> FALSE, val |-> 0]
      [] raw.kind = "number" -> [nan |-> FALSE, val |-> raw.val]
      [] OTHER               -> [nan |-> TRUE,  val |-> 0]

Unset == [kind |-> "unset", val |-> 0]

Num(n) == [kind |-> "number", val |-> n]

\* X= in the environment: the empty string
Empty == [kind |-> "empty", val |-> 0]

\* a value that is no number, as X=fast
NotANumber == [kind |-> "text", val |-> 0]

\* The deployments the model starts from: BOT_TOKEN, BOT_TOKENS (after parseList),
\* BOT_USERNAMES (after parseList), BOT_USERNAME.
Deployments ==
    { \* legacy single bot
      [BOT_TOKEN |-> <<"5", ":", "s">>, BOT_TOKENS |-> <<>>,
       BOT_USERNAMES |-> <<>>, BOT_USERNAME |-> <<"botA">>],
      \* two bots; the first token pasted in quotes, then a duplicate id and an
      \* entry without an id; BOT_TOKEN set as well
      [BOT_TOKEN |-> <<"5", ":", "s">>,
       BOT_TOKENS |-> << <<"SQ", "7", ":", "k", "SQ">>, <<"8", ":", "m">>,
                         <<"7", ":", "z">>, <<"n", "o">> >>,
       BOT_USERNAMES |-> << <<"botA">>, <<"botB">> >>, BOT_USERNAME |-> <<"botC">>],
      \* nothing configured
      [BOT_TOKEN |-> <<>>, BOT_TOKENS |-> <<>>,
       BOT_USERNAMES |-> <<>>, BOT_USERNAME |-> <<>>] }

RandomLevels == 0 .. 10

ChatIds == {1, 2}

DelayEnvs == { <<Unset, Unset>>, <<Num(100), Num(200)>> }

\* the values of one override in SpecDelay
DelayRaws == {Unset, Empty, NotANumber, Num(100), Num(102), Num(200)}

\* <<REACT_DELAY_MIN_MS, REACT_DELAY_MAX_MS>> in SpecDelay
WideDelayEnvs == DelayRaws \X DelayRaws

Startup(levels, restricted, delays, deployments) ==
    /\ RandomLevel \in levels
    /\ RestrictedChats \in restricted
    /\ \E d \in deployments, w \in delays :
          /\ env = [BOT_USERNAME |-> d.BOT_USERNAME,
                    REACT_DELAY_MIN_MS |-> w[1], REACT_DELAY_MAX_MS |-> w[2]]
          /\ botTokenSingle = d.BOT_TOKEN
          /\ multiBotMap = buildMultiBotMap(d.BOT_TOKENS, d.BOT_USERNAMES, d.BOT_USERNAME)
    /\ requests = <<>>
    /\ tasks = <<>>
    /\ calls = <<>>
    /\ picked = <<>>

----------------------------------------------------------------------------
(* Updates: https://core.telegram.org/bots/api#update, the fields onUpdate reads. *)
(* chat_id, chat_type and text are those of data.message || data.channel_post;   *)
(* query_id and payer are pre_checkout_query.id and pre_checkout_query.from.id.  *)

ChatTypes == {"private", "group", "supergroup", "channel"}

\* content.text; <<>> is a message without text (a photo, a sticker)
Texts ==
    { <<"/start">>, <<"/start@", "botA">>, <<"/start@", "botB">>, <<"/reactions">>,
      <<"/donate">>, <<"/start donate">>, <<"hello">>, <<>> }

Update(m, c, p, chat, type, text) ==
    [message |-> m, channel_post |-> c, pre_checkout_query |-> p,
     chat_id |-> chat, chat_type |-> type, text |-> text,
     query_id |-> IF p THEN <<"q1">> ELSE <<>>, payer |-> IF p THEN 3 ELSE 0]

\* an update with a message (m) or a channel post (c), with a pre_checkout_query
\* beside it or not (p)
ContentUpdates(m, c, p, chats, types, texts) ==
    {Update(m, c, p, chat, type, text) : chat \in chats, type \in types, text \in texts}

\* an update with none of the three fields
NoUpdate == Update(FALSE, FALSE, FALSE, 0, "", <<>>)

\* a pre_checkout_query alone, and an update with none of the three fields
BareUpdates == {Update(FALSE, FALSE, TRUE, 0, "", <<>>), NoUpdate}

Updates ==
    ContentUpdates(TRUE, FALSE, FALSE, ChatIds, ChatTypes, Texts)
    \cup ContentUpdates(FALSE, TRUE, FALSE, ChatIds, ChatTypes, Texts)
    \cup ContentUpdates(TRUE, FALSE, TRUE, ChatIds, ChatTypes, {<<"/start">>, <<"hello">>})
    \cup ContentUpdates(FALSE, TRUE, TRUE, ChatIds, ChatTypes, {<<"/start">>, <<"hello">>})
    \cup BareUpdates

\* the updates of Spec, where several updates are in flight together
FewUpdates ==
    ContentUpdates(TRUE, FALSE, FALSE, ChatIds, {"private"}, {<<"hello">>})
    \cup ContentUpdates(TRUE, FALSE, FALSE, {2}, {"private"}, {<<"/start">>})
    \cup ContentUpdates(FALSE, TRUE, FALSE, {2}, {"channel"}, {<<"hello">>})
    \cup BareUpdates

\* POST / and POST /webhook/<param>
Route(path, param) == [path |-> path, param |-> param]

Routes ==
    { Route("/", <<>>), Route("/webhook", <<"7">>),
      Route("/webhook", <<"x", "8">>), Route("/webhook", <<"9">>) }

\* the routes of Spec
FewRoutes == { Route("/", <<>>), Route("/webhook", <<"7">>), Route("/webhook", <<"9">>) }

----------------------------------------------------------------------------
(* bot-handler.js *)

\* Math.floor(Math.random() * n), for the draw u / den and an integer n >= 0
FloorOfRandom(u, den, n) == (u * n) \div den

\* a window taken from the overrides without the test envMax >= envMin
delayWindowUnordered(chatType) ==
    LET envMin == NumberOf(env.REACT_DELAY_MIN_MS)
        envMax == NumberOf(env.REACT_DELAY_MAX_MS)
    IN IF ~envMin.nan /\ ~envMax.nan
       THEN [min |-> envMin.val, max |-> envMax.val]
       ELSE IF chatType = "private" THEN [min |-> 2000, max |-> 6000]
       ELSE IF chatType = "channel" THEN [min |-> 10000, max |-> 25000]
       ELSE [min |-> 8000, max |-> 20000]

\* the (min, max) window of pickDelayMs
delayWindow(chatType) ==
    LET envMin == NumberOf(env.REACT_DELAY_MIN_MS)
        envMax == NumberOf(env.REACT_DELAY_MAX_MS)
    IN IF ~envMin.nan /\ ~envMax.nan /\ envMax.val >= envMin.val
       THEN [min |-> envMin.val, max |-> envMax.val]
       ELSE IF chatType = "private" THEN [min |-> 2000, max |-> 6000]
       ELSE IF chatType = "channel" THEN [min |-> 10000, max |-> 25000]
       ELSE [min |-> 8000, max |-> 20000]

\* const base = min + Math.floor(Math.random() * (max - min + 1))
base(chatType, u1, den) ==
    LET w == delayWindow(chatType)
    IN w.min + FloorOfRandom(u1, den, w.max - w.min + 1)

\* a jitter of up to 300 ms at every level
jitterAtEveryLevel(level, u2, den) == FloorOfRandom(u2, den, 300)

\* const jitter = Math.floor(Math.random() * (RandomLevel * 300))
jitter(level, u2, den) == FloorOfRandom(u2, den, level * 300)

\* pickDelayMs with its two draws u1 / den and u2 / den
pickDelayMsOn(den, chatType, level, u1, u2) ==
    base(chatType, u1, den) + jitter(level, u2, den)

\* pickDelayMs as onUpdate calls it, its draws on the grid of DrawDen
pickDelayMs(chatType, level, u1, u2) == pickDelayMsOn(DrawDen, chatType, level, u1, u2)

\* a <= b for fractions <<numerator, denominator>> with positive denominators
FracLeq(a, b) == a[1] * b[2] <= b[1] * a[2]

\* threshold taken as RandomLevel / 10
thresholdNotInverted(level) == <<level, 10>>

\* const threshold = 1 - RandomLevel / 10
threshold(level) == <<10 - level, 10>>

\* the gate without its bypass for private chats
shouldReactNoBypass(chatType, level, d) == FracLeq(<<d, DrawDen>>, threshold(level))

\* the gate with < in place of <=
shouldReactStrict(chatType, level, d) ==
    \/ chatType = "private"
    \/ d * threshold(level)[2] < threshold(level)[1] * DrawDen

\* chatType === 'private' ? true : Math.random() <= threshold
shouldReact(chatType, level, d) ==
    \/ chatType = "private"
    \/ FracLeq(<<d, DrawDen>>, threshold(level))

\* a lookup that never matches (chat ids kept as strings, compared with a number)
isRestrictedNeverMatches(chatId) == FALSE

\* RestrictedChats.includes(chatId)
isRestricted(chatId) == chatId \in RestrictedChats

\* the dispatch without '/start donate' in the donate test
pathDonateOnly(data, botUsername) ==
    IF data.message \/ data.channel_post
    THEN IF data.message /\ (data.text = <<"/start">>
                             \/ data.text = <<"/start@">> \o botUsername)
         THEN "start"
         ELSE IF data.message /\ data.text = <<"/reactions">>
         THEN "reactions"
         ELSE IF data.message /\ data.text = <<"/donate">>
         THEN "donate"
         ELSE "reaction"
    ELSE IF data.pre_checkout_query THEN "payment"
    ELSE "ignore"

\* the dispatch with the command tests made on any content, channel posts too
pathChannelCommands(data, botUsername) ==
    IF data.message \/ data.channel_post
    THEN IF data.text = <<"/start">> \/ data.text = <<"/start@">> \o botUsername
         THEN "start"
         ELSE IF data.text = <<"/reactions">>
         THEN "reactions"
         ELSE IF data.text = <<"/donate">> \/ data.text = <<"/start donate">>
         THEN "donate"
         ELSE "reaction"
    ELSE IF data.pre_checkout_query THEN "payment"
    ELSE "ignore"

\* the dispatch with pre_checkout_query tested first
pathPaymentFirst(data, botUsername) ==
    IF data.pre_checkout_query THEN "payment"
    ELSE IF data.message \/ data.channel_post
    THEN IF data.message /\ (data.text = <<"/start">>
                             \/ data.text = <<"/start@">> \o botUsername)
         THEN "start"
         ELSE IF data.message /\ data.text = <<"/reactions">>
         THEN "reactions"
         ELSE IF data.message /\ (data.text = <<"/donate">>
                                  \/ data.text = <<"/start donate">>)
         THEN "donate"
         ELSE "reaction"
    ELSE "ignore"

\* the dispatch with a final else that takes the content of the update for granted
pathNoIgnore(data, botUsername) ==
    IF data.message /\ (data.text = <<"/start">>
                        \/ data.text = <<"/start@">> \o botUsername)
    THEN "start"
    ELSE IF data.message /\ data.text = <<"/reactions">>
    THEN "reactions"
    ELSE IF data.message /\ (data.text = <<"/donate">>
                             \/ data.text = <<"/start donate">>)
    THEN "donate"
    ELSE IF data.pre_checkout_query /\ ~(data.message \/ data.channel_post)
    THEN "payment"
    ELSE "reaction"

\* the branch of onUpdate an update takes
path(data, botUsername) ==
    IF data.message \/ data.channel_post
    THEN IF data.message /\ (data.text = <<"/start">>
                             \/ data.text = <<"/start@">> \o botUsername)
         THEN "start"
         ELSE IF data.message /\ data.text = <<"/reactions">>
         THEN "reactions"
         ELSE IF data.message /\ (data.text = <<"/donate">>
                                  \/ data.text = <<"/start donate">>)
         THEN "donate"
         ELSE "reaction"
    ELSE IF data.pre_checkout_query THEN "payment"
    ELSE "ignore"

\* await scheduleReaction(...)
reactionCallAwaitedYes == TRUE

\* line 140: scheduleReaction(...) is called and its promise is not awaited
reactionCallAwaited == FALSE

\* onUpdate with a try/catch of its own around its calls
onUpdateOutcomeSwallowed(ok) == "returned"

\* an `await botApi.x(...)` of onUpdate stands in no try block: onUpdate's promise
\* is fulfilled when the call succeeds and rejected when it fails
onUpdateOutcome(ok) == IF ok THEN "returned" ELSE "rejected"

\* scheduleReaction with a catch block that sleeps and calls again
reactionOutcomeRetried(ok) == IF ok THEN "reacted" ELSE "sleeping"

\* scheduleReaction without its try/catch
reactionOutcomeUncaught(ok) == IF ok THEN "reacted" ELSE "unhandled"

\* scheduleReaction's try/catch: a failure is logged, the promise is fulfilled
reactionOutcome(ok) == IF ok THEN "reacted" ELSE "caught"

\* A rejected promise nobody handles ends the Node process.
ProcessAlive == \A t \in 1 .. Len(tasks) : tasks[t].pc # "unhandled"

\* the thank-you sent to the chat of the update's content
thanksRecipientChat(data) == data.chat_id

\* line 145: data.pre_checkout_query.from.id
thanksRecipient(data) == data.payer

----------------------------------------------------------------------------
(* The Telegram API calls, as the test double of a bot API would record them *)

Call(req, api, op, chat, message_id, what, flag) ==
    [req |-> req, api |-> api, op |-> op, chat |-> chat, message_id |-> message_id,
     what |-> what, flag |-> flag, result |-> "pending"]

\* the call request r or its task is waiting for
PendingCall(r) == CHOOSE i \in 1 .. Len(calls) : calls[i].req = r /\ calls[i].result = "pending"

Settled(r, ok) ==
    [calls EXCEPT ![PendingCall(r)].result = IF ok THEN "ok" ELSE "failed"]

----------------------------------------------------------------------------
(* api/index.js: the routes *)

\* POST / registered whenever BOT_TOKEN is set, multi-bot entries or not
targetLegacyAlways(route) ==
    IF route.path = "/"
    THEN IF botTokenSingle # <<>>
         THEN [found |-> TRUE, api |-> botTokenSingle,
               username |-> env.BOT_USERNAME, body |-> "Ok"]
         ELSE [found |-> FALSE, api |-> <<>>, username |-> <<>>, body |-> "Cannot POST /"]
    ELSE IF ~multiMode
         THEN [found |-> FALSE, api |-> <<>>, username |-> <<>>,
               body |-> "Multi-bot not configured"]
         ELSE IF cleanedId(route.param) \notin DOMAIN multiBotMap
         THEN [found |-> FALSE, api |-> <<>>, username |-> <<>>, body |-> "Unknown bot"]
         ELSE [found |-> TRUE, api |-> multiBotMap[cleanedId(route.param)].api,
               username |-> multiBotMap[cleanedId(route.param)].username, body |-> "Ok"]

\* the handler a POST reaches: the bot it is handled for, or the 404 it gets
\* (POST / has no handler unless BOT_TOKEN is set and no multi-bot entry was kept:
\* Express then answers 404 itself)
target(route) ==
    IF route.path = "/"
    THEN IF botTokenSingle # <<>> /\ ~multiMode
         THEN [found |-> TRUE, api |-> botTokenSingle,
               username |-> env.BOT_USERNAME, body |-> "Ok"]
         ELSE [found |-> FALSE, api |-> <<>>, username |-> <<>>, body |-> "Cannot POST /"]
    ELSE IF ~multiMode
         THEN [found |-> FALSE, api |-> <<>>, username |-> <<>>,
               body |-> "Multi-bot not configured"]
         ELSE IF cleanedId(route.param) \notin DOMAIN multiBotMap
         THEN [found |-> FALSE, api |-> <<>>, username |-> <<>>, body |-> "Unknown bot"]
         ELSE [found |-> TRUE, api |-> multiBotMap[cleanedId(route.param)].api,
               username |-> multiBotMap[cleanedId(route.param)].username, body |-> "Ok"]

\* a catch block that answers 500
routeStatusErrorOnCatch(outcome) == IF outcome = "returned" THEN 200 ELSE 500

\* res.status(200).send('Ok') after onUpdate, in the try block and in the catch block
routeStatus(outcome) == IF outcome = "returned" THEN 200 ELSE 200

\* onUpdate is settled and, in the same turn, the route handler answers
Respond(req, outcome) ==
    [req EXCEPT !.pc = "done", !.onUpdate = outcome,
                !.status = routeStatus(outcome), !.body = "Ok", !.responses = @ + 1]

\* the first turn of onUpdate for request id: up to its first await, or to its end
onUpdate(id, req) ==
    LET data == req.data
        p    == path(data, req.botUsername)
        wait(pc) == Append(requests, [req EXCEPT !.pc = pc, !.onUpdate = "pending"])
    IN CASE p = "start" ->
              /\ calls' = Append(calls, Call(id, req.api, "sendMessage", data.chat_id, 0,
                                  <<"startMessage",
                                    IF data.chat_type = "private" THEN "first_name"
                                                                  ELSE "title">>, FALSE))
              /\ requests' = wait("await:start")
              /\ UNCHANGED tasks
         [] p = "reactions" ->
              /\ calls' = Append(calls, Call(id, req.api, "sendMessage", data.chat_id, 0,
                                  <<"reactions">>, FALSE))
              /\ requests' = wait("await:reactions")
              /\ UNCHANGED tasks
         [] p = "donate" ->
              /\ calls' = Append(calls, Call(id, req.api, "sendInvoice", data.chat_id, 0,
                                  <<"donate">>, FALSE))
              /\ requests' = wait("await:donate")
              /\ UNCHANGED tasks
         [] p = "reaction" ->
              \* gate, u1, u2: the Math.random() of lines 135, 50 and 51
              \E gate \in Draws, u1 \in Draws, u2 \in Draws :
                 LET open   == ~isRestricted(data.chat_id)
                     react  == open /\ shouldReact(data.chat_type, RandomLevel, gate)
                     req1   == [req EXCEPT !.draw =
                                   IF open /\ data.chat_type # "private"
                                   THEN gate ELSE NoDraw]
                 IN /\ tasks' =
                         IF react
                         THEN Append(tasks,
                                [req |-> id, api |-> req.api, chatId |-> data.chat_id,
                                 message_id |-> req.message_id, reaction |-> <<"emoji">>,
                                 delayMs |-> pickDelayMs(data.chat_type, RandomLevel,
                                                         u1, u2),
                                 pc |-> "sleeping"])
                         ELSE tasks
                    /\ requests' =
                         IF react /\ reactionCallAwaited
                         THEN wait("await:reaction")
                         ELSE Append(requests, Respond(req1, "returned"))
                    /\ UNCHANGED calls
         [] p = "payment" ->
              /\ calls' = Append(calls, Call(id, req.api, "answerPreCheckoutQuery", 0, 0,
                                  data.query_id, TRUE))
              /\ requests' = wait("await:answer")
              /\ UNCHANGED tasks
         [] OTHER ->
              /\ requests' = Append(requests, Respond(req, "returned"))
              /\ UNCHANGED <<tasks, calls>>

\* A POST arrives: the route is resolved and, for a configured bot, onUpdate runs.
Receive(limit, routes, updates) ==
    /\ ProcessAlive
    /\ Len(requests) < limit
    /\ \E route \in routes, data \in updates :
          LET id  == Len(requests) + 1
              t   == target(route)
              req == [route |-> route, data |-> data,
                      message_id |-> IF data.message \/ data.channel_post
                                     THEN 100 + id ELSE 0,
                      handled |-> t.found, api |-> t.api, botUsername |-> t.username,
                      draw |-> NoDraw, pc |-> "start", onUpdate |-> "none",
                      status |-> 0, body |-> "", responses |-> 0]
          IN IF t.found
             THEN onUpdate(id, req)
             ELSE \* 404: req.body is never read; the record keeps no update
                  /\ requests' = Append(requests,
                        [req EXCEPT !.data = NoUpdate, !.message_id = 0,
                                    !.pc = "done", !.status = 404,
                                    !.body = t.body, !.responses = 1])
                  /\ UNCHANGED <<tasks, calls>>
    /\ UNCHANGED <<config, picked>>

\* The reply to the sendMessage or sendInvoice of a command arrives.
CommandReply(r) ==
    /\ ProcessAlive
    /\ requests[r].pc \in {"await:start", "await:reactions", "await:donate"}
    /\ \E ok \in BOOLEAN :
          /\ calls' = Settled(r, ok)
          /\ requests' = [requests EXCEPT ![r] = Respond(@, onUpdateOutcome(ok))]
    /\ UNCHANGED <<tasks, config, picked>>

\* The reply to answerPreCheckoutQuery arrives; on success the thank-you is sent.
AnswerReply(r) ==
    /\ ProcessAlive
    /\ requests[r].pc = "await:answer"
    /\ \E ok \in BOOLEAN :
          IF ok
          THEN /\ calls' = Append(Settled(r, TRUE),
                              Call(r, requests[r].api, "sendMessage",
                                   thanksRecipient(requests[r].data), 0,
                                   <<"thanks">>, FALSE))
               /\ requests' = [requests EXCEPT ![r].pc = "await:thanks"]
          ELSE /\ calls' = Settled(r, FALSE)
               /\ requests' = [requests EXCEPT ![r] = Respond(@, onUpdateOutcome(FALSE))]
    /\ UNCHANGED <<tasks, config, picked>>

\* The reply to the thank-you message arrives.
ThanksReply(r) ==
    /\ ProcessAlive
    /\ requests[r].pc = "await:thanks"
    /\ \E ok \in BOOLEAN :
          /\ calls' = Settled(r, ok)
          /\ requests' = [requests EXCEPT ![r] = Respond(@, onUpdateOutcome(ok))]
    /\ UNCHANGED <<tasks, config, picked>>

\* timers that expire in any order, whatever their delays
TimerDueInAnyOrder(t) == TRUE

\* a timer that a later update for the same chat clears
TimerDueUnlessSuperseded(t) ==
    /\ \A s \in 1 .. (t - 1) :
          tasks[s].pc = "sleeping" => tasks[s].delayMs > tasks[t].delayMs
    /\ \A s \in (t + 1) .. Len(tasks) : tasks[s].chatId # tasks[t].chatId

\* A timer set earlier for no longer a delay expires no later.
TimerDue(t) ==
    \A s \in 1 .. (t - 1) :
        tasks[s].pc = "sleeping" => tasks[s].delayMs > tasks[t].delayMs

\* sleep(delayMs) is over: scheduleReaction calls setMessageReaction.
TimerFire(t) ==
    /\ ProcessAlive
    /\ tasks[t].pc = "sleeping"
    /\ TimerDue(t)
    /\ calls' = Append(calls, Call(tasks[t].req, tasks[t].api, "setMessageReaction",
                        tasks[t].chatId, tasks[t].message_id, tasks[t].reaction, FALSE))
    /\ tasks' = [tasks EXCEPT ![t].pc = "calling"]
    /\ UNCHANGED <<requests, config, picked>>

\* The reply to setMessageReaction arrives.
ReactionReply(t) ==
    /\ ProcessAlive
    /\ tasks[t].pc = "calling"
    /\ \E ok \in BOOLEAN :
          /\ calls' = Settled(tasks[t].req, ok)
          /\ tasks' = [tasks EXCEPT ![t].pc = reactionOutcome(ok)]
    /\ UNCHANGED <<requests, config, picked>>

Replies ==
    \/ \E r \in 1 .. Len(requests) : CommandReply(r)
    \/ \E r \in 1 .. Len(requests) : AnswerReply(r)
    \/ \E r \in 1 .. Len(requests) : ThanksReply(r)
    \/ \E t \in 1 .. Len(tasks) : TimerFire(t)
    \/ \E t \in 1 .. Len(tasks) : ReactionReply(t)

----------------------------------------------------------------------------
(* SpecFirst: the first update after startup, over every configuration and every *)
(* update of the model.  Updates share no state, so what one update does is      *)
(* decided here.                                                                 *)

InitFirst == Startup(RandomLevels, {{}, {1}}, DelayEnvs, Deployments)

NextFirst ==
    \/ requests = <<>> /\ Receive(MaxUpdates, Routes, Updates)
    \/ Replies

SpecFirst == InitFirst /\ [][NextFirst]_vars

----------------------------------------------------------------------------
(* Spec: several updates in flight together, over fewer configurations and *)
(* updates.                                                                *)

Init == Startup({0}, {{1}}, {<<Unset, Unset>>}, Deployments)

Next ==
    \/ Receive(MaxUpdates, FewRoutes, FewUpdates)
    \/ Replies

Spec == Init /\ [][Next]_vars

----------------------------------------------------------------------------
(* SpecFair: the legacy bot with several reactions in flight, under the fairness *)
(* the runtime gives them.                                                       *)

\* BOT_TOKEN alone
LegacyDeployments == {d \in Deployments : d.BOT_TOKEN # <<>> /\ d.BOT_TOKENS = <<>>}

\* messages of two private chats, and a command and a pre_checkout_query, whose
\* requests can end rejected
FairUpdates ==
    ContentUpdates(TRUE, FALSE, FALSE, ChatIds, {"private"}, {<<"hello">>})
    \cup ContentUpdates(TRUE, FALSE, FALSE, {2}, {"private"}, {<<"/start">>})
    \cup {Update(FALSE, FALSE, TRUE, 0, "", <<>>)}

InitFair == Startup({0}, {{}}, {<<Unset, Unset>>}, LegacyDeployments)

NextFair ==
    \/ Receive(MaxUpdates, {Route("/", <<>>)}, FairUpdates)
    \/ Replies

\* What the Node event loop and the network grant each scheduled reaction: its
\* timer fires once it is due, and its call, once made, is answered or fails.
Fairness ==
    \A t \in 1 .. MaxUpdates :
        /\ WF_vars(t <= Len(tasks) /\ TimerFire(t))
        /\ WF_vars(t <= Len(tasks) /\ ReactionReply(t))

SpecFair == InitFair /\ [][NextFair]_vars /\ Fairness

----------------------------------------------------------------------------
(* SpecDelay: pickDelayMs called on its own, as a unit test calls it, over every  *)
(* level, chat type and pair of draws and over absent, empty, non-numeric,        *)
(* ordered and inverted overrides.                                                *)

\* pickDelayMs(chatType, RandomLevel) with the draws u1 / DelayDen and u2 / DelayDen
PickDelay(chatType, u1, u2) ==
    /\ picked = <<>>
    /\ picked' = << [chatType |-> chatType, level |-> RandomLevel,
                     min |-> delayWindow(chatType).min,
                     max |-> delayWindow(chatType).max,
                     base |-> base(chatType, u1, DelayDen),
                     jitter |-> jitter(RandomLevel, u2, DelayDen),
                     delayMs |-> pickDelayMsOn(DelayDen, chatType, RandomLevel, u1, u2)] >>
    /\ UNCHANGED <<config, requests, tasks, calls>>

InitDelay == Startup(RandomLevels, {{}}, WideDelayEnvs, Deployments)

NextDelay == \E chatType \in ChatTypes, u1, u2 \in DelayDraws : PickDelay(chatType, u1, u2)

SpecDelay == InitDelay /\ [][NextDelay]_vars

----------------------------------------------------------------------------
(* What the properties speak of *)

Handled == {r \in 1 .. Len(requests) : requests[r].handled}

TasksOf(r) == {t \in 1 .. Len(tasks) : tasks[t].req = r}

CallsOf(r) == LET Mine(c) == c.req = r IN SelectSeq(calls, Mine)

OpsOf(r) == [i \in 1 .. Len(CallsOf(r)) |-> CallsOf(r)[i].op]

HasContent(data) == data.message \/ data.channel_post

\* the texts that are commands for the bot named botUsername
CommandTexts(botUsername) ==
    { <<"/start">>, <<"/start@">> \o botUsername, <<"/reactions">>,
      <<"/donate">>, <<"/start donate">> }

\* a message or channel post that is no command: the input of the Reaction path
ReactionEvent(r) ==
    /\ HasContent(requests[r].data)
    /\ ~(requests[r].data.message
         /\ requests[r].data.text \in CommandTexts(requests[r].botUsername))

\* a pre_checkout_query event: the update carries that and no message or channel post
PaymentEvent(r) ==
    /\ requests[r].data.pre_checkout_query
    /\ ~HasContent(requests[r].data)

----------------------------------------------------------------------------
\* C1: an update whose chat id is in the restricted set never gets a reaction:
\* no reaction is scheduled for it and no setMessageReaction call is made for it,
\* in any state of its handling or after it, whatever the random level, the chat
\* type and the draws.
C1_RestrictedNeverReacts ==
    \A r \in Handled :
        (HasContent(requests[r].data) /\ requests[r].data.chat_id \in RestrictedChats)
        => /\ TasksOf(r) = {}
           /\ \A i \in 1 .. Len(calls) :
                 calls[i].req = r => calls[i].op # "setMessageReaction"

\* a private message that is no command, in a restricted chat, at level 0, handled
C1_Witness ==
    \E r \in Handled :
        /\ ReactionEvent(r)
        /\ requests[r].data.chat_id \in RestrictedChats
        /\ requests[r].data.chat_type = "private"
        /\ RandomLevel = 0
        /\ requests[r].pc = "done"

\* C2 as stated: onUpdate never ends rejected, whatever call fails.
C2_NeverRejects ==
    \A r \in Handled : requests[r].onUpdate # "rejected"

\* C2, amended: onUpdate ends rejected exactly when a call it awaits (sendMessage,
\* sendInvoice, answerPreCheckoutQuery) has failed; on the Reaction path and for an
\* update of unknown shape it returns normally, and a failed setMessageReaction
\* leaves it returned.
C2_RejectsIffAwaitedCallFails ==
    \A r \in Handled :
        /\ requests[r].onUpdate = "rejected"
           <=> \E i \in 1 .. Len(calls) :
                  /\ calls[i].req = r
                  /\ calls[i].op \in {"sendMessage", "sendInvoice", "answerPreCheckoutQuery"}
                  /\ calls[i].result = "failed"
        /\ (ReactionEvent(r) \/ ~(HasContent(requests[r].data)
                                   \/ requests[r].data.pre_checkout_query))
           => requests[r].onUpdate = "returned"
        /\ (\E i \in 1 .. Len(calls) :
               calls[i].req = r /\ calls[i].op = "setMessageReaction")
           => requests[r].onUpdate = "returned"

\* a pre-checkout whose thank-you message failed: onUpdate is rejected
C2_Witness ==
    \E r \in Handled :
        /\ PaymentEvent(r)
        /\ requests[r].onUpdate = "rejected"
        /\ Len(CallsOf(r)) = 2
        /\ CallsOf(r)[2].result = "failed"

\* C3: an update posted to the route of a configured bot is answered 200 'Ok',
\* once: nothing is sent while onUpdate is pending, and one 200 'Ok' is sent when it
\* has returned or failed.
C3_AlwaysOkOnce ==
    \A r \in Handled :
        /\ requests[r].responses <= 1
        /\ requests[r].onUpdate \in {"returned", "rejected"} <=> requests[r].pc = "done"
        /\ requests[r].pc = "done"
           => /\ requests[r].responses = 1
              /\ requests[r].status = 200
              /\ requests[r].body = "Ok"
        /\ requests[r].pc # "done" => requests[r].responses = 0

\* a multi-bot request whose onUpdate failed, answered 200
C3_Witness ==
    \E r \in Handled :
        /\ requests[r].route.path = "/webhook"
        /\ requests[r].onUpdate = "rejected"
        /\ requests[r].status = 200
        /\ requests[r].responses = 1

\* C4: the scheduled reaction is detached: whenever a reaction is scheduled, also
\* while its delay runs, onUpdate has returned and the 200 has been sent; so every
\* setMessageReaction call comes after the return of the onUpdate that scheduled it.
C4_ReactionDetached ==
    /\ \A t \in 1 .. Len(tasks) :
          /\ requests[tasks[t].req].onUpdate = "returned"
          /\ requests[tasks[t].req].pc = "done"
          /\ requests[tasks[t].req].responses = 1
    /\ \A i \in 1 .. Len(calls) :
          calls[i].op = "setMessageReaction"
          => requests[calls[i].req].onUpdate = "returned"

\* the response is out while the reaction still sleeps, for the longest delay drawn
C4_Witness ==
    \E t \in 1 .. Len(tasks) :
        /\ tasks[t].pc = "sleeping"
        /\ tasks[t].delayMs >= 10000
        /\ requests[tasks[t].req].status = 200

\* C5: a failure of setMessageReaction stays inside the scheduled task: the
\* process lives on and can take the next update, the onUpdate that scheduled the
\* reaction has returned and was answered 200, and the step in which the call fails
\* changes no request.
C5_ReactionFailureContained ==
    /\ [](/\ ProcessAlive
          /\ \A t \in 1 .. Len(tasks) :
                tasks[t].pc = "caught"
                => /\ requests[tasks[t].req].onUpdate = "returned"
                   /\ requests[tasks[t].req].status = 200
                   /\ Len(requests) < MaxUpdates
                      => ENABLED Receive(MaxUpdates, FewRoutes, FewUpdates))
    /\ [][(\E t \in 1 .. Len(tasks) :
              tasks[t].pc = "calling" /\ tasks'[t].pc \notin {"calling", "reacted"})
          => requests' = requests]_vars

\* a reaction failed, and an update that came after its own was handled and answered
C5_Witness ==
    \E t \in 1 .. Len(tasks) :
        /\ tasks[t].pc = "caught"
        /\ \E r \in Handled :
              /\ r > tasks[t].req
              /\ requests[r].pc = "done"
              /\ requests[r].status = 200

C7_GateIffDrawLeqThreshold ==
    \A r \in Handled :
        (/\ ReactionEvent(r)
         /\ requests[r].data.chat_type # "private"
         /\ requests[r].data.chat_id \notin RestrictedChats)
        => /\ requests[r].draw \in Draws
           /\ TasksOf(r) # {}
              <=> 10 * requests[r].draw <= (10 - RandomLevel) * DrawDen
           /\ RandomLevel = 0 => TasksOf(r) # {}
           /\ Cardinality(TasksOf(r)) <= 1

\* a draw that equals the threshold, above 0, and the reaction scheduled
C7_Witness ==
    \E r \in Handled :
        /\ ReactionEvent(r)
        /\ requests[r].data.chat_type = "group"
        /\ requests[r].draw \in Draws
        /\ requests[r].draw > 0
        /\ 10 * requests[r].draw = (10 - RandomLevel) * DrawDen
        /\ TasksOf(r) # {}

\* C8 as stated: at level 10 no reaction is scheduled for a group, supergroup or
\* channel event, whatever the draw.
C8_NeverAtLevelTen ==
    \A r \in Handled :
        (/\ RandomLevel = 10
         /\ ReactionEvent(r)
         /\ requests[r].data.chat_type # "private")
        => TasksOf(r) = {}

\* C8, amended: at level 10 a reaction is scheduled for a group, supergroup or
\* channel event exactly when the chat is not restricted and the draw is 0 (the
\* test is draw <= 0); for every draw above 0 none is scheduled.
C8_OnlyDrawZeroAtLevelTen ==
    \A r \in Handled :
        (/\ RandomLevel = 10
         /\ ReactionEvent(r)
         /\ requests[r].data.chat_type # "private")
        => (TasksOf(r) # {}
            <=> (requests[r].data.chat_id \notin RestrictedChats /\ requests[r].draw = 0))

\* a channel post at level 10 with a draw above 0: handled, nothing scheduled
C8_Witness ==
    \E r \in Handled :
        /\ RandomLevel = 10
        /\ requests[r].data.channel_post
        /\ requests[r].data.chat_type = "channel"
        /\ requests[r].draw \in Draws
        /\ requests[r].draw > 0
        /\ requests[r].pc = "done"
        /\ TasksOf(r) = {}

\* C9 as stated: a handled pre_checkout_query event has made exactly the calls
\* answerPreCheckoutQuery(id, true) and then sendMessage(payer, thank-you).
C9_AnswerThenThanks ==
    \A r \in Handled :
        (PaymentEvent(r) /\ requests[r].pc = "done")
        => OpsOf(r) = <<"answerPreCheckoutQuery", "sendMessage">>

\* C9, amended: a pre_checkout_query event makes one answerPreCheckoutQuery(id,
\* true) call first; when that call has succeeded, one sendMessage thank-you to the
\* payer id follows; when it has failed, no sendMessage is made; no other call is
\* made and no reaction is scheduled.
C9_AnswerThenThanksIfApproved ==
    \A r \in Handled :
        PaymentEvent(r)
        => LET cs == CallsOf(r)
           IN /\ Len(cs) \in {1, 2}
              /\ cs[1].op = "answerPreCheckoutQuery"
              /\ cs[1].what = requests[r].data.query_id
              /\ cs[1].flag = TRUE
              /\ cs[1].result = "ok" <=> Len(cs) = 2
              /\ Len(cs) = 2
                 => /\ cs[2].op = "sendMessage"
                    /\ cs[2].chat = requests[r].data.payer
                    /\ cs[2].what = <<"thanks">>
              /\ requests[r].pc = "done" /\ requests[r].onUpdate = "returned"
                 => Len(cs) = 2 /\ cs[2].result = "ok"
              /\ TasksOf(r) = {}

\* a pre-checkout approved and thanked
C9_Witness ==
    \E r \in Handled :
        /\ PaymentEvent(r)
        /\ requests[r].pc = "done"
        /\ Len(CallsOf(r)) = 2
        /\ CallsOf(r)[1].result = "ok"
        /\ CallsOf(r)[2].result = "ok"

\* C10: on a `message` update the text decides alone: '/start' or
\* '/start@<botUsername>' makes one sendMessage (the start message), '/reactions'
\* one sendMessage (the list), '/donate' or '/start donate' one sendInvoice, each
\* with no other call and no scheduled reaction, restricted chat or not, private or
\* not; any other text, or none, makes no sendMessage and no sendInvoice.
C10_CommandDispatch ==
    \A r \in Handled :
        requests[r].data.message
        => LET text == requests[r].data.text
               cs   == CallsOf(r)
           IN /\ text \in {<<"/start">>, <<"/start@">> \o requests[r].botUsername}
                 => /\ OpsOf(r) = <<"sendMessage">>
                    /\ cs[1].what[1] = "startMessage"
                    /\ cs[1].chat = requests[r].data.chat_id
                    /\ TasksOf(r) = {}
              /\ text = <<"/reactions">>
                 => /\ OpsOf(r) = <<"sendMessage">>
                    /\ cs[1].what = <<"reactions">>
                    /\ cs[1].chat = requests[r].data.chat_id
                    /\ TasksOf(r) = {}
              /\ text \in {<<"/donate">>, <<"/start donate">>}
                 => /\ OpsOf(r) = <<"sendInvoice">>
                    /\ cs[1].chat = requests[r].data.chat_id
                    /\ TasksOf(r) = {}
              /\ text \notin CommandTexts(requests[r].botUsername)
                 => \A i \in 1 .. Len(cs) : cs[i].op = "setMessageReaction"

\* '/start donate' in a private chat that is not restricted: the invoice alone
C10_Witness ==
    \E r \in Handled :
        /\ requests[r].data.message
        /\ requests[r].data.text = <<"/start donate">>
        /\ requests[r].data.chat_type = "private"
        /\ requests[r].data.chat_id \notin RestrictedChats
        /\ requests[r].pc = "done"
        /\ OpsOf(r) = <<"sendInvoice">>

\* C11: an update delivered as channel_post, with no message field, triggers no
\* command whatever its text, the five command texts included: no sendMessage and
\* no sendInvoice call is made for it, onUpdate returns in its first turn, and the
\* only call it can cause is the setMessageReaction of the reaction it scheduled.
C11_ChannelPostNeverCommand ==
    \A r \in Handled :
        (requests[r].data.channel_post /\ ~requests[r].data.message)
        => /\ \A i \in 1 .. Len(CallsOf(r)) : CallsOf(r)[i].op = "setMessageReaction"
           /\ requests[r].pc = "done"
           /\ requests[r].onUpdate = "returned"
           /\ TasksOf(r) = {}
              => \/ CallsOf(r) = <<>> /\ requests[r].data.chat_id \in RestrictedChats
                 \/ CallsOf(r) = <<>> /\ requests[r].draw # NoDraw

\* a channel post '/start' in a channel that is not restricted: handled, a
\* reaction scheduled and called, no command reply
C11_Witness ==
    \E r \in Handled :
        /\ requests[r].data.channel_post /\ ~requests[r].data.message
        /\ requests[r].data.text = <<"/start">>
        /\ requests[r].data.chat_type = "channel"
        /\ requests[r].pc = "done"
        /\ OpsOf(r) = <<"setMessageReaction">>

\* C12 as stated: every handled update that carries a pre_checkout_query gets an
\* answerPreCheckoutQuery call, an update that carries a message or channel post
\* beside it too.
C12_PaymentFirst ==
    \A r \in Handled :
        requests[r].data.pre_checkout_query
        => /\ CallsOf(r) # <<>>
           /\ CallsOf(r)[1].op = "answerPreCheckoutQuery"

\* C12, amended: message / channel_post is tested first and pre_checkout_query
\* only otherwise.  answerPreCheckoutQuery is called exactly for the updates that
\* carry a pre_checkout_query and neither a message nor a channel post; an update
\* that carries a pre_checkout_query beside a message or channel post is handled
\* by its content alone: a command reply for a command message, else the Reaction
\* path, and no answerPreCheckoutQuery and no thank-you.
C12_ContentFirst ==
    \A r \in Handled :
        LET data == requests[r].data
            answered == \E i \in 1 .. Len(calls) :
                            calls[i].req = r /\ calls[i].op = "answerPreCheckoutQuery"
        IN /\ answered <=> (data.pre_checkout_query /\ ~HasContent(data))
           /\ (data.pre_checkout_query /\ HasContent(data))
              => /\ \A i \in 1 .. Len(CallsOf(r)) : CallsOf(r)[i].what # <<"thanks">>
                 /\ (data.message /\ data.text = <<"/start">>)
                    => OpsOf(r) = <<"sendMessage">>
                 /\ ReactionEvent(r)
                    => /\ requests[r].pc = "done"
                       /\ \A i \in 1 .. Len(CallsOf(r)) :
                             CallsOf(r)[i].op = "setMessageReaction"

\* an update with a pre_checkout_query beside a private 'hello' message: handled
\* to its end with the reaction called and the query left unanswered
C12_Witness ==
    \E r \in Handled :
        /\ requests[r].data.pre_checkout_query
        /\ requests[r].data.message
        /\ requests[r].data.text = <<"hello">>
        /\ requests[r].pc = "done"
        /\ OpsOf(r) = <<"setMessageReaction">>

\* C13: an update with none of message, channel_post and pre_checkout_query is a
\* no-op: onUpdate returns in its first turn, no API call is made and no reaction
\* is scheduled for it, and the route answers 200 'Ok' once.
C13_UnknownShapeNoOp ==
    \A r \in Handled :
        (~HasContent(requests[r].data) /\ ~requests[r].data.pre_checkout_query)
        => /\ requests[r].pc = "done"
           /\ requests[r].onUpdate = "returned"
           /\ CallsOf(r) = <<>>
           /\ TasksOf(r) = {}
           /\ requests[r].draw = NoDraw
           /\ requests[r].status = 200
           /\ requests[r].body = "Ok"
           /\ requests[r].responses = 1

\* an update with none of the three fields, posted to a configured bot
C13_Witness ==
    \E r \in Handled :
        /\ requests[r].data = NoUpdate
        /\ requests[r].pc = "done"
        /\ requests[r].status = 200

\* C14 as stated: the window is (envMin, envMax) when both overrides are present
\* and numeric with envMax >= envMin, and the default of the chat type in every
\* other case, an override that is present but no number (the empty string
\* included) being such a case; in every case min <= max.
C14_WindowAsStated ==
    \A i \in 1 .. Len(picked) :
        LET p  == picked[i]
            lo == env.REACT_DELAY_MIN_MS
            hi == env.REACT_DELAY_MAX_MS
            overridden == lo.kind = "number" /\ hi.kind = "number" /\ hi.val >= lo.val
        IN /\ overridden => (p.min = lo.val /\ p.max = hi.val)
           /\ ~overridden
              => /\ p.chatType = "private" => (p.min = 2000 /\ p.max = 6000)
                 /\ p.chatType = "channel" => (p.min = 10000 /\ p.max = 25000)
                 /\ p.chatType \in {"group", "supergroup"}
                    => (p.min = 8000 /\ p.max = 20000)
           /\ p.min <= p.max

\* C14, amended: an override set to the empty string counts as the number 0
\* (Number('') is 0, not NaN).  With that, the window is (envMin, envMax) for every
\* chat type when both overrides convert to numbers with envMax >= envMin, and in
\* every other case (an override absent or not a number, or envMax < envMin) the
\* default of the chat type: private (2000, 6000), channel (10000, 25000), group
\* and supergroup (8000, 20000).  In every case min <= max.
C14_WindowResolution ==
    \A i \in 1 .. Len(picked) :
        LET p  == picked[i]
            lo == env.REACT_DELAY_MIN_MS
            hi == env.REACT_DELAY_MAX_MS
            numeric(raw) == raw.kind \in {"number", "empty"}
            value(raw) == IF raw.kind = "number" THEN raw.val ELSE 0
            overridden == numeric(lo) /\ numeric(hi) /\ value(hi) >= value(lo)
        IN /\ overridden => (p.min = value(lo) /\ p.max = value(hi))
           /\ ~overridden
              => /\ p.chatType = "private" => (p.min = 2000 /\ p.max = 6000)
                 /\ p.chatType = "channel" => (p.min = 10000 /\ p.max = 25000)
                 /\ p.chatType \in {"group", "supergroup"}
                    => (p.min = 8000 /\ p.max = 20000)
           /\ p.min <= p.max

\* inverted overrides (200, 100): the delay of a channel is picked in the
\* channel default
C14_Witness ==
    /\ env.REACT_DELAY_MIN_MS = Num(200)
    /\ env.REACT_DELAY_MAX_MS = Num(100)
    /\ picked # <<>>
    /\ picked[1].chatType = "channel"
    /\ picked[1].min = 10000
    /\ picked[1].max = 25000

\* C15: at every level 0..10 and for every pair of draws the delay is base +
\* jitter, base an integer of the window [min, max], jitter an integer of
\* [0, level * 300) and 0 at level 0; so a private chat without overrides gets a
\* delay in [2000, 6000 + level * 300], and the overrides 100 and 200 at level 0
\* give a delay in [100, 200] for every chat type.
C15_DelayIsBasePlusJitter ==
    \A i \in 1 .. Len(picked) :
        LET p == picked[i]
        IN /\ p.delayMs = p.base + p.jitter
           /\ p.base \in p.min .. p.max
           /\ p.level = 0 => p.jitter = 0
           /\ p.level > 0 => p.jitter \in 0 .. (p.level * 300 - 1)
           /\ (p.chatType = "private" /\ env.REACT_DELAY_MIN_MS = Unset
                                      /\ env.REACT_DELAY_MAX_MS = Unset)
              => p.delayMs \in 2000 .. (6000 + p.level * 300)
           /\ (env.REACT_DELAY_MIN_MS = Num(100) /\ env.REACT_DELAY_MAX_MS = Num(200)
                                                 /\ p.level = 0)
              => p.delayMs \in 100 .. 200

\* a private chat without overrides at level 10: the jitter carries the delay
\* beyond the window
C15_Witness ==
    /\ env.REACT_DELAY_MIN_MS = Unset
    /\ env.REACT_DELAY_MAX_MS = Unset
    /\ picked # <<>>
    /\ picked[1].chatType = "private"
    /\ picked[1].level = 10
    /\ picked[1].jitter > 0
    /\ picked[1].delayMs > 6000

\* C16: a scheduled reaction is never cancelled: its task stays, and leaves its
\* sleep only for its setMessageReaction call; and when timers fire and calls are
\* answered, every scheduled reaction makes that call and ends reacted or caught,
\* whatever updates arrive later, whatever happens to the other reactions and to
\* the request that scheduled it.
C16_ScheduledEventuallyAttempts ==
    /\ [][\A t \in 1 .. Len(tasks) :
            /\ t <= Len(tasks')
            /\ tasks'[t].req = tasks[t].req
            /\ tasks[t].pc = "sleeping" => tasks'[t].pc \in {"sleeping", "calling"}
            /\ (tasks[t].pc = "sleeping" /\ tasks'[t].pc = "calling")
               => /\ Len(calls') = Len(calls) + 1
                  /\ calls'[Len(calls')].op = "setMessageReaction"
                  /\ calls'[Len(calls')].req = tasks[t].req]_vars
    /\ \A t \in 1 .. MaxUpdates :
          (t <= Len(tasks) /\ tasks[t].pc = "sleeping")
          ~> (t <= Len(tasks) /\ tasks[t].pc \in {"reacted", "caught"})

\* a reaction made after another update's reaction failed and after every
\* update of the behaviour was received
C16_Witness ==
    \E t, s \in 1 .. Len(tasks) :
        /\ t < s
        /\ tasks[t].pc = "reacted"
        /\ tasks[s].pc = "caught"
        /\ calls[Len(calls)].req = tasks[t].req
        /\ Len(requests) = MaxUpdates

\* C17: no order is kept between scheduled reactions: the reaction of a later
\* update is called while the reaction of an earlier update still sleeps exactly
\* when its delay is the shorter one (the state C17_Witness is reached), and a
\* sleeping reaction never keeps the next update from being received and handled.
C17_NoOrderBetweenReactions ==
    /\ \A a, b \in 1 .. Len(tasks) :
          (a < b /\ tasks[a].pc = "sleeping" /\ tasks[b].pc # "sleeping")
          => tasks[b].delayMs < tasks[a].delayMs
    /\ ((\E a \in 1 .. Len(tasks) : tasks[a].pc = "sleeping")
        /\ Len(requests) < MaxUpdates)
       => ENABLED Receive(MaxUpdates, FewRoutes, FewUpdates)

\* update A (a channel post) handled before update B (a private message of the
\* same chat); B handled to its end and its reaction called and answered while
\* the reaction of A still sleeps
C17_Witness ==
    \E a, b \in 1 .. Len(tasks) :
        /\ tasks[a].req < tasks[b].req
        /\ tasks[a].chatId = tasks[b].chatId
        /\ tasks[a].pc = "sleeping"
        /\ tasks[b].pc = "reacted"
        /\ tasks[b].delayMs < tasks[a].delayMs
        /\ requests[tasks[b].req].pc = "done"
        /\ \E i \in 1 .. Len(calls) :
              calls[i].req = tasks[b].req /\ calls[i].op = "setMessageReaction"
        /\ \A i \in 1 .. Len(calls) : calls[i].req # tasks[a].req

\* C18: each handled update causes at most one setMessageReaction call, made for
\* a message or channel post, with the chat id and the message id of that update
\* and the API client of its bot; a failed call is the last one for its update; so
\* the setMessageReaction calls are never more than the message and channel-post
\* updates handled.
C18_AtMostOneReactionCall ==
    LET Reacts == {i \in 1 .. Len(calls) : calls[i].op = "setMessageReaction"}
    IN /\ \A i \in Reacts :
             /\ calls[i].req \in Handled
             /\ HasContent(requests[calls[i].req].data)
             /\ calls[i].chat = requests[calls[i].req].data.chat_id
             /\ calls[i].message_id = requests[calls[i].req].message_id
             /\ calls[i].api = requests[calls[i].req].api
       /\ \A i, j \in Reacts : calls[i].req = calls[j].req => i = j
       /\ \A r \in Handled : Cardinality(TasksOf(r)) <= 1
       /\ \A t \in 1 .. Len(tasks) :
             tasks[t].pc = "caught"
             => \E i \in Reacts : calls[i].req = tasks[t].req /\ calls[i].result = "failed"
       /\ Cardinality(Reacts)
            <= Cardinality({r \in Handled : HasContent(requests[r].data)})

\* two updates of one chat handled: the reaction call of the first failed and was
\* left at that, the one of the second succeeded, each with its own message id
C18_Witness ==
    \E a, b \in 1 .. Len(tasks) :
        /\ tasks[a].req < tasks[b].req
        /\ tasks[a].chatId = tasks[b].chatId
        /\ tasks[a].pc = "caught"
        /\ tasks[b].pc = "reacted"
        /\ Len(calls) = 2
        /\ \E i, j \in 1 .. Len(calls) :
              /\ calls[i].req = tasks[a].req /\ calls[i].result = "failed"
              /\ calls[j].req = tasks[b].req /\ calls[j].result = "ok"
              /\ calls[i].message_id # calls[j].message_id

\* C19: a POST to /webhook/<botId> is handled only with the API client and the
\* username kept for the digits of botId, whose token carries that id and is no
\* other bot's; it gets 404, with no onUpdate, no call and no reaction, when no
\* multi-bot entry was kept or none for that id; POST / is handled only when no
\* multi-bot entry was kept, and then with BOT_TOKEN and BOT_USERNAME: in one
\* configuration at most one of the two routes handles updates.
C19_RoutingIsolation ==
    \A r \in 1 .. Len(requests) :
        LET req == requests[r]
            id  == cleanedId(req.route.param)
        IN /\ req.route.path = "/webhook"
              => /\ req.handled <=> (multiMode /\ id \in DOMAIN multiBotMap)
                 /\ req.handled
                    => /\ req.api = multiBotMap[id].api
                       /\ req.botUsername = multiBotMap[id].username
                       /\ tokenBotId(req.api) = id
                       /\ \A other \in DOMAIN multiBotMap \ {id} :
                             multiBotMap[other].api # req.api
                       /\ req.api # botTokenSingle
           /\ req.route.path = "/"
              => /\ req.handled <=> (botTokenSingle # <<>> /\ ~multiMode)
                 /\ req.handled
                    => /\ req.api = botTokenSingle
                       /\ req.botUsername = env.BOT_USERNAME
           /\ req.handled
              => /\ \A i \in 1 .. Len(CallsOf(r)) : CallsOf(r)[i].api = req.api
                 /\ \A t \in TasksOf(r) : tasks[t].api = req.api
                 /\ req.route.path = "/" <=> ~multiMode
           /\ ~req.handled
              => /\ req.status = 404
                 /\ req.responses = 1
                 /\ req.onUpdate = "none"
                 /\ req.pc = "done"
                 /\ CallsOf(r) = <<>>
                 /\ TasksOf(r) = {}

\* '/start@botB' posted to /webhook/x8 where the bots 7 and 8 are configured and
\* BOT_TOKEN is set too: answered by bot 8 under its own token and username
C19_Witness ==
    \E r \in Handled :
        /\ requests[r].route = Route("/webhook", <<"x", "8">>)
        /\ botTokenSingle # <<>>
        /\ requests[r].api = <<"8", ":", "m">>
        /\ requests[r].botUsername = <<"botB">>
        /\ requests[r].data.text = <<"/start@", "botB">>
        /\ OpsOf(r) = <<"sendMessage">>
        /\ CallsOf(r)[1].api = <<"8", ":", "m">>
        /\ requests[r].pc = "done"

====
